---- MODULE Spec2Model ----
(***************************************************************************)
(* The Fire Tower rules engine of firetower.py: the 16x16 board, the four  *)
(* corner players, the wind, the selected action with its orientation,     *)
(* every move handler, and the victory scan that follows each event.       *)
(*                                                                         *)
(* A point is <<x, y>>; a corner is <<y_wind, x_wind>>; the engine is a    *)
(* record g with the fields of FireTowerGame, and every handler is an      *)
(* operator from (g, point) to the engine after the handler.               *)
(***************************************************************************)
EXTENDS Integers, Sequences, FiniteSets

\* ------------------------------------------------------------------ bounds

\* Events the game loop handles in a game started from scratch.
MaxSteps == 5

\* Events the game loop handles after the opening of an endgame.
MaxEndgameSteps == 4

\* Target commands are clicks on the four home cells and on a window of two
\* rows, the upper row of the eternal flame and the row above it, that spans
\* the flame's columns and TargetSpan columns to their left.
TargetSpan == 0

\* The wind rolls followed call by call, one step of the retry loop at a time.
MaxRolls == 2

\* ---------------------------------------------------------------- geometry

BOARD_SIZE == 16

Point(x, y) == <<x, y>>

Add(p, o) == Point(p[1] + o[1], p[2] + o[2])

Sub(p, o) == Point(p[1] - o[1], p[2] - o[2])

left(p) == Add(p, Point(-1, 0))

right(p) == Add(p, Point(1, 0))

up(p) == Add(p, Point(0, -1))

down(p) == Add(p, Point(0, 1))

WindDir == {"N", "W", "E", "S"}

\* as_vector with the two vertical vectors exchanged.
as_vector_flipped(w) ==
    CASE w = "N" -> Point(0, 1)
      [] w = "W" -> Point(-1, 0)
      [] w = "E" -> Point(1, 0)
      [] w = "S" -> Point(0, -1)

as_vector(w) ==
    CASE w = "N" -> Point(0, -1)
      [] w = "W" -> Point(-1, 0)
      [] w = "E" -> Point(1, 0)
      [] w = "S" -> Point(0, 1)

\* A corner is <<y_wind, x_wind>>, as Corner(y_wind, x_wind).
CORNERS == {<<"N", "W">>, <<"N", "E">>, <<"S", "E">>, <<"S", "W">>}

get_board_range(x_range, y_range) == {Point(x, y) : x \in x_range, y \in y_range}

corner_point(c) ==
    Point(IF c[2] = "W" THEN 0 ELSE BOARD_SIZE - 1,
          IF c[1] = "N" THEN 0 ELSE BOARD_SIZE - 1)

corner_tower(c) ==
    get_board_range(IF c[2] = "W" THEN 0..2 ELSE (BOARD_SIZE - 3)..(BOARD_SIZE - 1),
                    IF c[1] = "N" THEN 0..2 ELSE (BOARD_SIZE - 3)..(BOARD_SIZE - 1))

\* range(int(B/2 - 1), int(B/2 + 1)) on both axes.
eternal_flame ==
    get_board_range(((BOARD_SIZE - 2) \div 2)..(((BOARD_SIZE + 2) \div 2) - 1),
                    ((BOARD_SIZE - 2) \div 2)..(((BOARD_SIZE + 2) \div 2) - 1))

\* ------------------------------------------------------------------- board

Cells == get_board_range(0..(BOARD_SIZE - 1), 0..(BOARD_SIZE - 1))

on_board(p) == p[1] \in 0..(BOARD_SIZE - 1) /\ p[2] \in 0..(BOARD_SIZE - 1)

\* Board.__getitem__
Get(b, p) == IF on_board(p) THEN b[p] ELSE "off_board"

\* Board.__setitem__
Set(b, p, v) == IF on_board(p) THEN [b EXCEPT ![p] = v] ELSE b

\* for p in ps: board[p] = v   (ps a set: the writes commute)
SetAll(b, ps, v) == IF ps = {} THEN b ELSE [q \in Cells |-> IF q \in ps THEN v ELSE b[q]]

\* The board __init__ builds: trees, with the eternal flame burning.
NewBoard == [q \in Cells |-> IF q \in eternal_flame THEN "fire" ELSE "tree"]

\* The players of Players.four_player(): one per corner, named by it.
NewPlayers == [c \in CORNERS |-> TRUE]

\* ------------------------------------------------------------------ roster
\* A Player as the dataclass holds it, and None for an empty slot.
Player(name, corner) == [name |-> name, corner |-> corner, active |-> TRUE]

NoPlayer == [name |-> "None", corner |-> <<"None", "None">>, active |-> FALSE]

\* f'Player {i + 1}' for the slot at index i, counted here from 1.
DefaultName(i) == <<"Player 1", "Player 2", "Player 3", "Player 4">>[i]

\* taken_corners in get_players.
taken_corners(player_list) ==
    {player_list[i].corner : i \in {j \in 1..Len(player_list) : player_list[j] # NoPlayer}}

\* The orders in which a deque built from the set s can hold its members: a
\* set of Corner objects is iterated in the order of their hashes.
SetOrders(s) ==
    {q \in [1..Cardinality(s) -> s] : \A i, j \in 1..Cardinality(s) : q[i] = q[j] => i = j}

\* get_players, with corners the deque of the corners not taken: the k-th empty
\* slot pops the k-th corner; popleft on an empty deque raises IndexError.
get_players(player_list, corners) ==
    LET pops(i) == Cardinality({j \in 1..i : player_list[j] = NoPlayer})
    IN  IF Cardinality({j \in 1..Len(player_list) : player_list[j] = NoPlayer}) > Len(corners)
        THEN << >>
        ELSE [i \in 1..Len(player_list) |->
                IF player_list[i] # NoPlayer THEN player_list[i]
                ELSE Player(DefaultName(i), corners[pops(i)])]

\* two_player, three_player and four_player hand get_players 2, 3 and 4 slots.
SlotCounts == {2, 3, 4}

\* FireTowerGame.towers: the towers of all players, active or not.
towers == UNION {corner_tower(c) : c \in CORNERS}

has_orthogonal(b, p, status) ==
    \/ Get(b, left(p)) = status
    \/ Get(b, right(p)) = status
    \/ Get(b, up(p)) = status
    \/ Get(b, down(p)) = status

\* validate_firebreak without the test for the towers.
validate_firebreak_in_towers(b, p) ==
    Get(b, p) = "tree" /\ ~has_orthogonal(b, p, "firebreak")

\* validate_firebreak without the test for a neighbouring firebreak.
validate_firebreak_lone(b, p) ==
    /\ Get(b, p) = "tree"
    /\ p \notin towers

validate_firebreak(b, p) ==
    /\ Get(b, p) = "tree"
    /\ p \notin towers
    /\ ~has_orthogonal(b, p, "firebreak")

\* ---------------------------------------------------------------- handlers
\* The engine g is the record of FireTowerGame's fields: board, players (the
\* active flag of the player at each corner), wind, action (the name of the
\* bound method stored in self.action), orientation, active, and victor (the
\* corners of the players victory() has announced: none before it is called).

add_wind_fire(g, point) ==
    LET wind_point == Sub(point, as_vector(g.wind))
    IN  IF Get(g.board, point) = "tree" /\ Get(g.board, wind_point) = "fire"
        THEN [g EXCEPT !.board = Set(g.board, point, "fire")]
        ELSE g

\* add_firebreak_cluster asking for one valid cell (any) where the code asks
\* for both (all).
add_firebreak_cluster_any(g, cluster) ==
    IF \E i \in 1..2 : validate_firebreak(g.board, cluster[i])
    THEN [g EXCEPT !.board = SetAll(g.board, {cluster[1], cluster[2]} \cap Cells, "firebreak")]
    ELSE g

\* add_firebreak_cluster writing every cell that is valid on its own.
add_firebreak_cluster_each(g, cluster) ==
    [g EXCEPT !.board = SetAll(g.board, {cluster[i] : i \in {j \in 1..Len(cluster) :
                                           validate_firebreak(g.board, cluster[j])}}, "firebreak")]

\* cluster is a pair of points; both are validated before either is written.
add_firebreak_cluster(g, cluster) ==
    IF \A i \in 1..Len(cluster) : validate_firebreak(g.board, cluster[i])
    THEN [g EXCEPT !.board = SetAll(g.board, {cluster[i] : i \in 1..Len(cluster)}, "firebreak")]
    ELSE g

dozer_line(g, point) ==
    add_firebreak_cluster(g, IF g.orientation = "h" THEN <<point, right(point)>>
                                                   ELSE <<point, down(point)>>)

\* de_re_forest placing a firebreak on any tree, without validate_firebreak.
de_re_forest_unchecked(g, point) ==
    IF Get(g.board, point) = "tree"
    THEN [g EXCEPT !.board = Set(g.board, point, "firebreak")]
    ELSE IF Get(g.board, point) = "firebreak"
         THEN [g EXCEPT !.board = Set(g.board, point, "tree")]
         ELSE g

\* de_re_forest without the branch that removes a firebreak.
de_re_forest_add_only(g, point) ==
    IF validate_firebreak(g.board, point)
    THEN [g EXCEPT !.board = Set(g.board, point, "firebreak")]
    ELSE g

de_re_forest(g, point) ==
    IF validate_firebreak(g.board, point)
    THEN [g EXCEPT !.board = Set(g.board, point, "firebreak")]
    ELSE IF Get(g.board, point) = "firebreak"
         THEN [g EXCEPT !.board = Set(g.board, point, "tree")]
         ELSE g

scratch_line(g, point) ==
    add_firebreak_cluster(g, IF g.orientation = "h" THEN <<point, right(right(point))>>
                                                   ELSE <<point, down(down(point))>>)

\* flare_up skipping a firebreak (continue) where the loop stops at it (break).
flare_up_past_firebreak(g, point) ==
    LET flare_line == IF g.orientation = "h"
                      THEN <<point, right(point), right(right(point))>>
                      ELSE <<point, down(point), down(down(point))>>
        filtered_flare == {flare_line[i] : i \in {j \in 1..3 : Get(g.board, flare_line[j]) = "tree"}}
    IN  IF \E p \in filtered_flare : has_orthogonal(g.board, p, "fire")
        THEN [g EXCEPT !.board = SetAll(g.board, filtered_flare, "fire")]
        ELSE g

\* The loop over flare_line stops at the first firebreak and keeps the trees
\* met before it.
flare_up(g, point) ==
    LET flare_line == IF g.orientation = "h"
                      THEN <<point, right(point), right(right(point))>>
                      ELSE <<point, down(point), down(down(point))>>
        filtered_flare == {flare_line[i] : i \in
                             {j \in 1..3 : /\ Get(g.board, flare_line[j]) = "tree"
                                           /\ \A k \in 1..j : Get(g.board, flare_line[k]) # "firebreak"}}
    IN  IF \E p \in filtered_flare : has_orthogonal(g.board, p, "fire")
        THEN [g EXCEPT !.board = SetAll(g.board, filtered_flare, "fire")]
        ELSE g

\* burning_snag without the test for a fire next to the square.
burning_snag_unlit(g, point) ==
    LET square == {point, right(point), down(point), down(right(point))}
    IN  IF \E p \in square : Get(g.board, p) = "tree"
        THEN [g EXCEPT !.board = SetAll(g.board, {p \in square : Get(g.board, p) = "tree"}, "fire")]
        ELSE g

burning_snag(g, point) ==
    LET square == {point, right(point), down(point), down(right(point))}
    IN  IF /\ \E p \in square : has_orthogonal(g.board, p, "fire")
           /\ \E p \in square : Get(g.board, p) = "tree"
        THEN [g EXCEPT !.board = SetAll(g.board, {p \in square : Get(g.board, p) = "tree"}, "fire")]
        ELSE g

\* explosion reaching the four orthogonal neighbours only.
explosion_orthogonal(g, point) ==
    IF Get(g.board, point) # "fire" \/ point \in eternal_flame
    THEN g
    ELSE LET area == {up(point), right(point), left(point), down(point)}
         IN  IF \E p \in area : Get(g.board, p) = "tree"
             THEN [g EXCEPT !.board = SetAll(Set(g.board, point, "firebreak"),
                                             {p \in area : Get(g.board, p) = "tree"}, "fire")]
             ELSE g

explosion(g, point) ==
    IF Get(g.board, point) # "fire" \/ point \in eternal_flame
    THEN g
    ELSE LET area == {left(up(point)), up(point), right(up(point)), right(point), left(point),
                      left(down(point)), down(point), right(down(point))}
         IN  IF \E p \in area : Get(g.board, p) = "tree"
             THEN [g EXCEPT !.board = SetAll(Set(g.board, point, "firebreak"),
                                             {p \in area : Get(g.board, p) = "tree"}, "fire")]
             ELSE g

\* ember_phase_one without the eternal-flame test.
ember_phase_one_any_fire(g, point) ==
    IF Get(g.board, point) = "fire" /\ point \notin towers
    THEN [g EXCEPT !.board = Set(g.board, point, "tree"), !.action = "ember_phase_two"]
    ELSE g

ember_phase_one(g, point) ==
    IF Get(g.board, point) = "fire" /\ point \notin eternal_flame /\ point \notin towers
    THEN [g EXCEPT !.board = Set(g.board, point, "tree"), !.action = "ember_phase_two"]
    ELSE g

\* ember_phase_two placing the ember on any tree.
ember_phase_two_any_tree(g, point) ==
    IF Get(g.board, point) = "tree"
    THEN [g EXCEPT !.board = Set(g.board, point, "fire"), !.action = "no_action"]
    ELSE g

ember_phase_two(g, point) ==
    IF Get(g.board, point) = "tree" /\ has_orthogonal(g.board, point, "fire")
    THEN [g EXCEPT !.board = Set(g.board, point, "fire"), !.action = "no_action"]
    ELSE g

no_action(g, point) == g

flip(o) == IF o = "h" THEN "v" ELSE "h"

\* set_oriented_action without the flip of the orientation.
set_oriented_action_plain(g, a) == [g EXCEPT !.action = a]

set_oriented_action(g, a) ==
    [g EXCEPT !.orientation = IF g.action = a THEN flip(g.orientation) ELSE g.orientation,
              !.action = a]

\* valid_winds taken from the first wind of each corner only.
valid_winds_vertical(g) == {w \in WindDir : \E c \in CORNERS : g.players[c] /\ w = c[1]}

\* valid_winds taken from the corners of all players, eliminated ones too.
valid_winds_all_players(g) == {w \in WindDir : \E c \in CORNERS : w = c[1] \/ w = c[2]}

\* The directions of the corners of the players still active.
valid_winds(g) == {w \in WindDir : \E c \in CORNERS : g.players[c] /\ (w = c[1] \/ w = c[2])}

\* roll_wind drawing from all four directions.
roll_outcomes_any_direction(g) == {w \in WindDir : w # g.wind}

\* The values the retry loop of roll_wind can leave in self.wind: the draws
\* from valid_winds that differ from old_wind.
roll_outcomes(g) == {w \in valid_winds(g) : w # g.wind}

roll_wind(g, draw) == [g EXCEPT !.wind = draw]

victory(g, c) == [g EXCEPT !.active = FALSE, !.victor = {c}]

\* check_for_victory counting the players that were active before the pass.
check_for_victory_stale(g) ==
    LET burned == {c \in CORNERS : g.players[c] /\ Get(g.board, corner_point(c)) = "fire"}
        g1 == [g EXCEPT !.players = [c \in CORNERS |-> g.players[c] /\ c \notin burned],
                        !.board = SetAll(g.board, UNION {corner_tower(c) : c \in burned}, "fire")]
        current_remaining == {c \in CORNERS : g.players[c]}
    IN  IF Cardinality(current_remaining) = 1
        THEN victory(g1, CHOOSE c \in current_remaining : TRUE)
        ELSE g1

\* check_for_victory burning only the trees of an eliminated player's tower.
check_for_victory_trees(g) ==
    LET burned == {c \in CORNERS : g.players[c] /\ Get(g.board, corner_point(c)) = "fire"}
        g1 == [g EXCEPT !.players = [c \in CORNERS |-> g.players[c] /\ c \notin burned],
                        !.board = SetAll(g.board, {q \in UNION {corner_tower(c) : c \in burned} :
                                                     g.board[q] = "tree"}, "fire")]
        new_remaining == {c \in CORNERS : g1.players[c]}
    IN  IF Cardinality(new_remaining) = 1
        THEN victory(g1, CHOOSE c \in new_remaining : TRUE)
        ELSE g1

\* The towers are pairwise disjoint and each home lies in its own tower, so
\* the loop over current_remaining reads every home as it was on entry.
check_for_victory(g) ==
    LET burned == {c \in CORNERS : g.players[c] /\ Get(g.board, corner_point(c)) = "fire"}
        g1 == [g EXCEPT !.players = [c \in CORNERS |-> g.players[c] /\ c \notin burned],
                        !.board = SetAll(g.board, UNION {corner_tower(c) : c \in burned}, "fire")]
        new_remaining == {c \in CORNERS : g1.players[c]}
    IN  IF Cardinality(new_remaining) = 1
        THEN victory(g1, CHOOSE c \in new_remaining : TRUE)
        ELSE g1

\* ------------------------------------------------------------------ events
\* An event is what window.read() hands to update: a click on a board button
\* (its Point), the wind button (with the direction roll_wind ends on), an
\* action button (its key), or the window being closed.

NoPoint == Point(-1, -1)

Click(pt) == [kind |-> "click", point |-> pt, arg |-> ""]

Roll(w) == [kind |-> "wind", point |-> NoPoint, arg |-> w]

Select(key) == [kind |-> "select", point |-> NoPoint, arg |-> key]

Closed == [kind |-> "closed", point |-> NoPoint, arg |-> ""]

Started == [kind |-> "start", point |-> NoPoint, arg |-> ""]

\* self.action(event)
call_action(g, point) ==
    CASE g.action = "add_wind_fire"   -> add_wind_fire(g, point)
      [] g.action = "dozer_line"      -> dozer_line(g, point)
      [] g.action = "scratch_line"    -> scratch_line(g, point)
      [] g.action = "de_re_forest"    -> de_re_forest(g, point)
      [] g.action = "flare_up"        -> flare_up(g, point)
      [] g.action = "explosion"       -> explosion(g, point)
      [] g.action = "ember_phase_one" -> ember_phase_one(g, point)
      [] g.action = "ember_phase_two" -> ember_phase_two(g, point)
      [] g.action = "burning_snag"    -> burning_snag(g, point)
      [] g.action = "no_action"       -> no_action(g, point)

\* update, up to its last line (the call of check_for_victory).
dispatch(g, ev) ==
    CASE ev.kind = "click"  -> call_action(g, ev.point)
      [] ev.kind = "wind"   -> roll_wind(g, ev.arg)
      [] ev.kind = "closed" -> [g EXCEPT !.active = FALSE]
      [] ev.kind = "select" ->
           CASE ev.arg = "-Fire-" -> [g EXCEPT !.action = "add_wind_fire"]
             [] ev.arg = "-DL-"   -> set_oriented_action(g, "dozer_line")
             [] ev.arg = "-SL-"   -> set_oriented_action(g, "scratch_line")
             [] ev.arg = "-DRF-"  -> [g EXCEPT !.action = "de_re_forest"]
             [] ev.arg = "-FL-"   -> set_oriented_action(g, "flare_up")
             [] ev.arg = "-EXPL-" -> [g EXCEPT !.action = "explosion"]
             [] ev.arg = "-EMBR-" -> [g EXCEPT !.action = "ember_phase_one"]
             [] ev.arg = "-BSNG-" -> [g EXCEPT !.action = "burning_snag"]

update(g, ev) == check_for_victory(dispatch(g, ev))

\* __init__ up to the first roll_wind, whose draw is w.
NewGame(w) ==
    roll_wind([board |-> NewBoard, players |-> NewPlayers, wind |-> "None",
               action |-> "add_wind_fire", orientation |-> "h", active |-> TRUE,
               victor |-> {}], w)

\* ------------------------------------------------------------------- state

VARIABLES
    board,        \* self.board: the status of every cell
    players,      \* the active flag of the player at each corner
    wind,         \* self.wind
    action,       \* self.action, by the name of the bound method
    orientation,  \* self.orientation
    active,       \* self.active
    victor,       \* the players victory() has announced
    event,        \* the event the last call of update handled
    mid,          \* the board as that call's check_for_victory found it
    budget,       \* events the game loop will still handle
    slots,        \* the list of players handed to get_players
    roster,       \* the list get_players returned
    pc,           \* where the program stands: "game_loop", "roll_wind", "get_players", "done"
    old_wind      \* old_wind of the roll_wind call under way

vars == <<board, players, wind, action, orientation, active, victor, event, mid, budget,
          slots, roster, pc, old_wind>>

\* The engine as the record the handlers work on.
Game ==
    [board |-> board, players |-> players, wind |-> wind, action |-> action,
     orientation |-> orientation, active |-> active, victor |-> victor]

\* The cells a target command is issued on.
FlameLow == (BOARD_SIZE - 2) \div 2

Targets ==
    get_board_range((FlameLow - TargetSpan)..(FlameLow + 1), (FlameLow - 1)..FlameLow)
        \cup {corner_point(c) : c \in CORNERS}

\* The cells a burning snag is issued on: the targets and the cell (5, 5), far
\* from the eternal flame.
SnagTargets == Targets \cup {Point(5, 5)}

\* The cells a de/re-forest is issued on: the targets and the cell (14, 2) of
\* the north-east tower.
ForestTargets == Targets \cup {Point(BOARD_SIZE - 2, 2)}

\* The cells an explosion is issued on: the targets and the cell (14, 1) of
\* the north-east tower.
BlastTargets == Targets \cup {Point(BOARD_SIZE - 2, 1)}

Keys == {"-Fire-", "-DL-", "-SL-", "-DRF-", "-FL-", "-EXPL-", "-EMBR-", "-BSNG-"}

EngineStarts(g, n) ==
    /\ board = g.board
    /\ players = g.players
    /\ wind = g.wind
    /\ action = g.action
    /\ orientation = g.orientation
    /\ active = g.active
    /\ victor = g.victor
    /\ event = Started
    /\ mid = g.board
    /\ budget = n

\* The game loop is entered; the players are kept by their corners.
Starts(g, n) ==
    /\ EngineStarts(g, n)
    /\ slots = << >>
    /\ roster = << >>
    /\ pc = "game_loop"
    /\ old_wind = "None"

\* FireTowerGame.__init__: the new game after its first wind roll.
Init == \E w \in roll_outcomes(NewGame("None")) : Starts(NewGame(w), MaxSteps)

\* One turn of game_loop: while self.active, update handles the event read.
Handle(ev) ==
    /\ pc = "game_loop"
    /\ active
    /\ budget > 0
    /\ \E d \in {dispatch(Game, ev)} :
         \E g \in {check_for_victory(d)} :
           /\ board' = g.board
           /\ players' = g.players
           /\ wind' = g.wind
           /\ action' = g.action
           /\ orientation' = g.orientation
           /\ active' = g.active
           /\ victor' = g.victor
           /\ mid' = d.board
    /\ event' = ev
    /\ budget' = budget - 1
    /\ UNCHANGED <<slots, roster, pc, old_wind>>

AddWindFire(pt) == action = "add_wind_fire" /\ Handle(Click(pt))

DozerLine(pt) == action = "dozer_line" /\ Handle(Click(pt))

ScratchLine(pt) == action = "scratch_line" /\ Handle(Click(pt))

DeReForest(pt) == action = "de_re_forest" /\ Handle(Click(pt))

FlareUp(pt) == action = "flare_up" /\ Handle(Click(pt))

BurningSnag(pt) == action = "burning_snag" /\ Handle(Click(pt))

Explosion(pt) == action = "explosion" /\ Handle(Click(pt))

EmberPhaseOne(pt) == action = "ember_phase_one" /\ Handle(Click(pt))

EmberPhaseTwo(pt) == action = "ember_phase_two" /\ Handle(Click(pt))

NoAction(pt) == action = "no_action" /\ Handle(Click(pt))

RollWind == \E w \in roll_outcomes(Game) : Handle(Roll(w))

SelectAction(key) == key \in Keys /\ Handle(Select(key))

WindowClosed == active /\ Handle(Closed)

Next ==
    \/ \E pt \in Targets :
         \/ AddWindFire(pt)
         \/ DozerLine(pt)
         \/ ScratchLine(pt)
         \/ FlareUp(pt)
         \/ EmberPhaseOne(pt)
         \/ EmberPhaseTwo(pt)
         \/ NoAction(pt)
    \/ \E pt \in ForestTargets : DeReForest(pt)
    \/ \E pt \in SnagTargets : BurningSnag(pt)
    \/ \E pt \in BlastTargets : Explosion(pt)
    \/ RollWind
    \/ \E key \in Keys : SelectAction(key)
    \/ WindowClosed

Spec == Init /\ [][Next]_vars

\* ----------------------------------------------------------------- endgame
\* A game in which a fixed opening has been played: flare-ups carry the fire
\* from the eternal flame up column 8, along row 7 to columns 1 and 14 and
\* along those columns into all four towers, and an explosion inside the north-east tower
\* leaves a firebreak there. Every event of the opening goes through update.

Opening ==
    << Select("-FL-"),
       Click(Point(4, 7)), Click(Point(1, 7)), Click(Point(9, 7)), Click(Point(12, 7)),
       Select("-FL-"),
       Click(Point(8, 4)),
       Click(Point(14, 4)), Click(Point(14, 1)),
       Select("-EXPL-"), Click(Point(14, 2)),
       Select("-FL-"),
       Click(Point(1, 4)), Click(Point(1, 1)),
       Click(Point(1, 8)), Click(Point(1, 11)), Click(Point(1, 14)),
       Click(Point(14, 8)), Click(Point(14, 11)), Click(Point(14, 14)) >>

RECURSIVE Run(_, _)
Run(g, evs) == IF evs = << >> \/ ~g.active THEN g ELSE Run(update(g, Head(evs)), Tail(evs))

InitEndgame == \E w \in roll_outcomes(NewGame("None")) : Starts(Run(NewGame(w), Opening), MaxEndgameSteps)

SpecEndgame == InitEndgame /\ [][Next]_vars

\* --------------------------------------------------------------- wind roll
\* roll_wind one step at a time: the call stores old_wind, the loop draws
\* while self.wind is old_wind, and the return hands control back to update,
\* which runs check_for_victory. The calls are made in the constructor (the
\* wind is None, and the scan that follows in this model finds nothing to do
\* on the new board) and in games in which the opening has been played and up
\* to two players have then been eliminated.

Homes == {corner_point(c) : c \in CORNERS}

Eliminations ==
    {<< >>} \cup {<<Click(a)>> : a \in Homes}
            \cup {<<Click(a), Click(b)>> : a \in Homes, b \in Homes}

InitRoll ==
    \/ /\ EngineStarts(NewGame("None"), MaxRolls)
       /\ slots = << >>
       /\ roster = << >>
       /\ pc = "roll_wind"
       /\ old_wind = "None"
    \/ \E w \in roll_outcomes(NewGame("None")), script \in Eliminations :
         /\ Run(NewGame(w), Opening \o script).active
         /\ Starts(Run(NewGame(w), Opening \o script), MaxRolls)

\* update, event '-W-': roll_wind is called.
BeginRoll ==
    /\ pc = "game_loop"
    /\ active
    /\ budget > 0
    /\ pc' = "roll_wind"
    /\ old_wind' = wind
    /\ UNCHANGED <<board, players, wind, action, orientation, active, victor, event, mid,
                   budget, slots, roster>>

\* One turn of the loop: self.wind = random.choice(list(valid_winds)).
Draw(w) ==
    /\ pc = "roll_wind"
    /\ wind = old_wind
    /\ w \in valid_winds(Game)
    /\ wind' = w
    /\ UNCHANGED <<board, players, action, orientation, active, victor, event, mid,
                   budget, slots, roster, pc, old_wind>>

\* The loop is left, roll_wind returns and update goes on to check_for_victory.
EndRoll ==
    /\ pc = "roll_wind"
    /\ wind # old_wind
    /\ \E g \in {check_for_victory(Game)} :
         /\ board' = g.board
         /\ players' = g.players
         /\ active' = g.active
         /\ victor' = g.victor
    /\ mid' = board
    /\ event' = Roll(wind)
    /\ budget' = budget - 1
    /\ pc' = "game_loop"
    /\ old_wind' = "None"
    /\ UNCHANGED <<wind, action, orientation, slots, roster>>

NextRoll ==
    \/ BeginRoll
    \/ \E w \in WindDir : Draw(w)
    \/ EndRoll

\* random.choice is fair: a direction that can be drawn at every turn of the
\* loop is drawn at some turn; and the program goes on when the loop is left.
FairRoll == (\A w \in WindDir : WF_vars(Draw(w))) /\ WF_vars(EndRoll)

SpecRoll == InitRoll /\ [][NextRoll]_vars /\ FairRoll

\* ------------------------------------------------------------------ roster
\* The roster is built before the engine: a list of two, three or four slots,
\* each empty or holding a preset player at any corner, is handed to
\* get_players.

Presets == {Player("Preset", c) : c \in CORNERS}

InitRoster ==
    /\ EngineStarts(NewGame("None"), 0)
    /\ slots \in UNION {[1..n -> Presets \cup {NoPlayer}] : n \in SlotCounts}
    /\ roster = << >>
    /\ pc = "get_players"
    /\ old_wind = "None"

GetPlayers ==
    /\ pc = "get_players"
    /\ \E corners \in SetOrders(CORNERS \ taken_corners(slots)) :
         roster' = get_players(slots, corners)
    /\ pc' = IF roster' = << >> THEN "IndexError" ELSE "done"
    /\ UNCHANGED <<board, players, wind, action, orientation, active, victor, event, mid,
                   budget, slots, old_wind>>

NextRoster == GetPlayers

SpecRoster == InitRoster /\ [][NextRoster]_vars

\* ================================================================== claims
\* The claims are stated in their own terms: cells by their coordinates, the
\* status of a cell that may lie off the board, and the cells around a cell.

At(b, q) == IF q[1] >= 0 /\ q[1] <= 15 /\ q[2] >= 0 /\ q[2] <= 15 THEN b[q] ELSE "off_board"

Around4(q) == {<<q[1] - 1, q[2]>>, <<q[1] + 1, q[2]>>, <<q[1], q[2] - 1>>, <<q[1], q[2] + 1>>}

Around8(q) == {<<q[1] + dx, q[2] + dy>> : dx \in {-1, 0, 1}, dy \in {-1, 0, 1}} \ {q}

NextTo(b, q, status) == \E n \in Around4(q) : At(b, n) = status

FlameCells == {<<7, 7>>, <<7, 8>>, <<8, 7>>, <<8, 8>>}

HomeOf(c) == <<IF c[2] = "W" THEN 0 ELSE 15, IF c[1] = "N" THEN 0 ELSE 15>>

TowerOf(c) ==
    {<<x, y>> : x \in IF c[2] = "W" THEN {0, 1, 2} ELSE {13, 14, 15},
                y \in IF c[1] = "N" THEN {0, 1, 2} ELSE {13, 14, 15}}

InATower(q) == \E c \in CORNERS : q \in TowerOf(c)

ActivePlayers == {c \in CORNERS : players[c]}

\* The board of a new game.
FreshBoard == \A q \in Cells : board[q] = IF q \in FlameCells THEN "fire" ELSE "tree"

\* The cell from which the fire reaches q under wind w: the neighbour of q on
\* the side the wind blows from.
UpwindOf(q, w) ==
    CASE w = "N" -> <<q[1], q[2] + 1>>
      [] w = "S" -> <<q[1], q[2] - 1>>
      [] w = "W" -> <<q[1] + 1, q[2]>>
      [] w = "E" -> <<q[1] - 1, q[2]>>

\* The second cell of a dozer line (gap 1) or scratch line (gap 2) at q.
SecondCell(q, o, gap) == IF o = "h" THEN <<q[1] + gap, q[2]>> ELSE <<q[1], q[2] + gap>>

\* A cell a firebreak may be placed on.
FirebreakOk(b, q) == At(b, q) = "tree" /\ ~InATower(q) /\ ~NextTo(b, q, "firebreak")

\* The three cells of a flare-up at q, and those of them before the first
\* firebreak that are trees.
FlareRun(q, o) == [i \in 1..3 |-> SecondCell(q, o, i - 1)]

FlareCandidates(b, q, o) ==
    {FlareRun(q, o)[i] : i \in {j \in 1..3 : /\ At(b, FlareRun(q, o)[j]) = "tree"
                                             /\ ~\E k \in 1..j : At(b, FlareRun(q, o)[k]) = "firebreak"}}

SnagSquare(q) == {q, <<q[1] + 1, q[2]>>, <<q[1], q[2] + 1>>, <<q[1] + 1, q[2] + 1>>}

\* The legality rule of action a at target q on board b.
Legal(a, b, w, o, q) ==
    CASE a = "add_wind_fire"   -> At(b, q) = "tree" /\ At(b, UpwindOf(q, w)) = "fire"
      [] a = "dozer_line"      -> FirebreakOk(b, q) /\ FirebreakOk(b, SecondCell(q, o, 1))
      [] a = "scratch_line"    -> FirebreakOk(b, q) /\ FirebreakOk(b, SecondCell(q, o, 2))
      [] a = "de_re_forest"    -> FirebreakOk(b, q) \/ At(b, q) = "firebreak"
      [] a = "flare_up"        -> \E p \in FlareCandidates(b, q, o) : NextTo(b, p, "fire")
      [] a = "burning_snag"    -> /\ \E p \in SnagSquare(q) : NextTo(b, p, "fire")
                                  /\ \E p \in SnagSquare(q) : At(b, p) = "tree"
      [] a = "explosion"       -> /\ At(b, q) = "fire"
                                  /\ q \notin FlameCells
                                  /\ \E p \in Around8(q) : At(b, p) = "tree"
      [] a = "ember_phase_one" -> At(b, q) = "fire" /\ q \notin FlameCells /\ ~InATower(q)
      [] a = "ember_phase_two" -> At(b, q) = "tree" /\ NextTo(b, q, "fire")
      [] OTHER                 -> TRUE

\* C1: the four eternal-flame cells (7,7), (7,8), (8,7), (8,8) are fire in every
\* reachable state, and were fire when the victory scan of the last event ran.
C1_EternalFlameBurns == \A q \in FlameCells : board[q] = "fire" /\ mid[q] = "fire"

\* C1 witness: an explosion or an ember phase one has been aimed at an
\* eternal-flame cell.
C1_Witness ==
    /\ event.kind = "click"
    /\ event.point \in FlameCells
    /\ action \in {"explosion", "ember_phase_one"}

\* C2: a target command whose legality rule fails leaves, after the command and
\* the victory scan that follows it, every cell's status and every player's
\* active flag as they were.
C2_RejectedChangesNothing ==
    [][(event'.kind = "click" /\ ~Legal(action, board, wind, orientation, event'.point))
         => (board' = board /\ mid' = board /\ players' = players)]_vars

\* C2 witness: an ember placement aimed at an eternal-flame cell, which is
\* not a tree, has been rejected.
C2_Witness ==
    /\ event.kind = "click"
    /\ event.point = <<8, 7>>
    /\ action = "ember_phase_two"

\* C3: after the victory scan victory has been declared (the game is no longer
\* active and a victor is reported, the one player left) if and only if at most
\* one player is still active.
C3_VictoryIffAtMostOneActive ==
    /\ (~active /\ victor # {}) <=> (Cardinality(ActivePlayers) <= 1)
    /\ victor # {} => victor = ActivePlayers

\* C3 witness: three players have been eliminated and the fourth has won.
C3_Witness == ~active /\ Cardinality(victor) = 1 /\ Cardinality(ActivePlayers) = 1

\* C4: an active player whose home cell the victory scan finds on fire is
\* inactive after the scan, with all 9 cells of the tower on fire; an active
\* player whose home cell is not on fire stays active and the scan changes
\* none of the cells of the tower.
C4_EliminationBurnsTower ==
    [][\A c \in CORNERS :
         players[c] =>
           IF mid'[HomeOf(c)] = "fire"
           THEN ~players'[c] /\ \A q \in TowerOf(c) : board'[q] = "fire"
           ELSE players'[c] /\ \A q \in TowerOf(c) : board'[q] = mid'[q]]_vars

\* C4 witness: the north-east player has been eliminated while a cell of the
\* tower was a firebreak, and the scan has set that cell on fire.
C4_Witness ==
    /\ ~players[<<"N", "E">>]
    /\ mid[<<14, 2>>] = "firebreak"
    /\ board[<<14, 2>>] = "fire"
    /\ Cardinality(TowerOf(<<"N", "E">>)) = 9

\* C5 as stated: on the fresh board basic wind fire at (8,6) under a South
\* wind sets (8,6) on fire.
C5_SouthWindIgnites ==
    [][(FreshBoard /\ wind = "S" /\ action = "add_wind_fire" /\ event' = Click(<<8, 6>>))
         => board'[<<8, 6>>] = "fire"]_vars

\* C5 amended: on the fresh board basic wind fire at (8,6) sets (8,6) on fire
\* under a North wind, whose upwind neighbour of (8,6) is the fire cell (8,7),
\* and changes nothing else; under a South wind, whose upwind neighbour of
\* (8,6) is the tree (8,5), it leaves the board as it is.
C5_NorthWindIgnites ==
    [][(FreshBoard /\ action = "add_wind_fire" /\ event' = Click(<<8, 6>>))
         => /\ wind = "N" => board' = [board EXCEPT ![<<8, 6>>] = "fire"]
            /\ wind = "S" => board' = board]_vars

\* C5 witness: the first event of a game was basic wind fire at (8,6) under a
\* North wind, and (8,6) burns.
C5_Witness ==
    /\ budget = MaxSteps - 1
    /\ event = Click(<<8, 6>>)
    /\ wind = "N"
    /\ action = "add_wind_fire"
    /\ board[<<8, 6>>] = "fire"
    /\ board[<<8, 5>>] = "tree"

\* C6 as stated: once a successful phase one has put the engine in
\* awaiting-placement (self.action is ember_phase_two), the engine leaves that
\* state only through a placement on a tree cell orthogonally next to fire.
C6_OnlyPlacementLeavesAwaiting ==
    [][(action = "ember_phase_two" /\ action' # "ember_phase_two")
         => /\ event'.kind = "click"
            /\ board[event'.point] = "tree"
            /\ NextTo(board, event'.point, "fire")]_vars

\* C6 amended: the engine enters awaiting-placement only through a successful
\* phase one (a fire cell outside the eternal flame and the towers, which
\* becomes a tree); while it is awaiting placement an invalid placement target,
\* a wind roll and the closing of the window leave it there with the board
\* unchanged; it leaves through a phase-two placement on a tree cell
\* orthogonally next to fire, which sets that cell on fire and makes the engine
\* idle (no_action), and also through the selection of any action, which
\* abandons the placement; and it becomes idle only through such a placement.
C6_EmberMachine ==
    [][/\ (action # "ember_phase_two" /\ action' = "ember_phase_two")
            => /\ action = "ember_phase_one"
               /\ event'.kind = "click"
               /\ board[event'.point] = "fire"
               /\ event'.point \notin FlameCells
               /\ ~InATower(event'.point)
               /\ mid' = [board EXCEPT ![event'.point] = "tree"]
       /\ (action = "ember_phase_two" /\ event'.kind = "click")
            => IF board[event'.point] = "tree" /\ NextTo(board, event'.point, "fire")
               THEN action' = "no_action" /\ mid' = [board EXCEPT ![event'.point] = "fire"]
               ELSE action' = "ember_phase_two" /\ mid' = board
       /\ (action = "ember_phase_two" /\ event'.kind \in {"wind", "closed"})
            => action' = "ember_phase_two" /\ mid' = board
       /\ (action = "ember_phase_two" /\ event'.kind = "select")
            => action' # "ember_phase_two" /\ mid' = board
       /\ (action # "no_action" /\ action' = "no_action")
            => action = "ember_phase_two" /\ event'.kind = "click"]_vars

\* C6 witness: a placement has been accepted: the engine is idle and the cell
\* of the last target command burns.
C6_Witness ==
    /\ action = "no_action"
    /\ event.kind = "click"
    /\ mid[event.point] = "fire"
    /\ event.point \notin FlameCells
    /\ budget = MaxSteps - 4

\* C7: a wind roll stores a direction that is a wind component of the corner of
\* a player active at the roll, and, more than one such direction existing,
\* one that differs from the wind before the roll.
C7_RollDrawsFromActiveCorners ==
    [][event'.kind = "wind"
         => /\ \E c \in ActivePlayers : wind' = c[1] \/ wind' = c[2]
            /\ Cardinality(UNION {{c[1], c[2]} : c \in ActivePlayers}) > 1 => wind' # wind
            /\ event'.arg = wind']_vars

\* C7 witness: the wind has been rolled after both northern players were
\* eliminated, so that North is no longer among the valid directions.
C7_Witness ==
    /\ event.kind = "wind"
    /\ ~players[<<"N", "W">>]
    /\ ~players[<<"N", "E">>]
    /\ active

\* C8: a dozer-line or scratch-line command changes the board if and only if
\* the target and the second cell (the right or lower neighbour for a dozer
\* line, the cell two steps right or down for a scratch line) are both trees,
\* outside every tower and not orthogonally next to a firebreak; it then turns
\* exactly those two cells into firebreaks.
C8_FirebreakLines ==
    [][(event'.kind = "click" /\ action \in {"dozer_line", "scratch_line"})
         => LET q == event'.point
                r == SecondCell(q, orientation, IF action = "dozer_line" THEN 1 ELSE 2)
            IN  IF FirebreakOk(board, q) /\ FirebreakOk(board, r)
                THEN /\ mid' = [p \in Cells |-> IF p \in {q, r} THEN "firebreak" ELSE board[p]]
                     /\ mid' # board
                     /\ board' = mid'
                ELSE mid' = board /\ board' = board]_vars

\* C8 witness: a horizontal scratch line has been placed at (7,6): (7,6) and
\* (9,6) are firebreaks and the cell skipped between them is still a tree.
C8_Witness ==
    /\ event = Click(<<7, 6>>)
    /\ action = "scratch_line"
    /\ orientation = "h"
    /\ mid[<<7, 6>>] = "firebreak"
    /\ mid[<<8, 6>>] = "tree"
    /\ mid[<<9, 6>>] = "firebreak"

\* C9: an explosion command changes the board if and only if its target is
\* fire, is no eternal-flame cell and has a tree among its 8 neighbours; it then
\* turns the target into a firebreak and exactly the trees among the 8
\* neighbours into fire.
C9_Explosion ==
    [][(event'.kind = "click" /\ action = "explosion")
         => LET q == event'.point
            IN  IF /\ board[q] = "fire"
                   /\ q \notin FlameCells
                   /\ \E n \in Around8(q) : At(board, n) = "tree"
                THEN /\ mid' = [p \in Cells |->
                                  IF p = q THEN "firebreak"
                                  ELSE IF p \in Around8(q) /\ board[p] = "tree" THEN "fire"
                                  ELSE board[p]]
                     /\ mid' # board
                ELSE mid' = board /\ board' = board]_vars

\* C9 witness: an explosion has turned its target into a firebreak and a
\* diagonal neighbour into fire.
C9_Witness ==
    /\ event.kind = "click"
    /\ action = "explosion"
    /\ mid[event.point] = "firebreak"
    /\ mid[<<event.point[1] - 1, event.point[2] - 1>>] = "fire"

\* C10: a flare-up ignites nothing when no tree of its run of three cells,
\* cut at the first firebreak, is orthogonally next to fire; otherwise it
\* ignites exactly the trees of the cut run, and no cell at or past the first
\* firebreak.
C10_FlareUp ==
    [][(event'.kind = "click" /\ action = "flare_up")
         => LET q == event'.point
                cands == FlareCandidates(board, q, orientation)
            IN  IF \E p \in cands : NextTo(board, p, "fire")
                THEN mid' = [p \in Cells |-> IF p \in cands THEN "fire" ELSE board[p]]
                ELSE mid' = board]_vars

\* C10 witness: a horizontal flare-up at (7,6) has ignited (7,6) and stopped at
\* the firebreak on (8,6), leaving the tree (9,6) behind it.
C10_Witness ==
    /\ event = Click(<<7, 6>>)
    /\ action = "flare_up"
    /\ orientation = "h"
    /\ board[<<7, 6>>] = "fire"
    /\ board[<<8, 6>>] = "firebreak"
    /\ board[<<9, 6>>] = "tree"

\* C11: a burning snag aimed at q changes the board if and only if some cell of
\* the square q, right of q, below q, below right of q has a fire orthogonally
\* next to it and some cell of the square is a tree; it then turns exactly the
\* trees of the square into fire. On the board of a new game the burning snag
\* at (5,5) leaves the board as it was.
C11_BurningSnag ==
    [][(event'.kind = "click" /\ action = "burning_snag")
         => LET square == SnagSquare(event'.point)
                lit == /\ \E p \in square : NextTo(board, p, "fire")
                       /\ \E p \in square : At(board, p) = "tree"
            IN  /\ IF lit
                   THEN /\ mid' # board
                        /\ \A q \in Cells \ square : mid'[q] = board[q]
                        /\ \A q \in Cells \cap square :
                             mid'[q] = IF board[q] = "tree" THEN "fire" ELSE board[q]
                   ELSE mid' = board
                /\ (FreshBoard /\ event'.point = <<5, 5>>) => (mid' = board /\ board' = board)]_vars

\* C11 witness: the burning snag at (7,6) has set fire to the trees (7,6) and
\* (8,6) of its square, whose other two cells belong to the eternal flame.
C11_Witness ==
    /\ event = Click(<<7, 6>>)
    /\ action = "burning_snag"
    /\ mid[<<7, 6>>] = "fire"
    /\ mid[<<8, 6>>] = "fire"
    /\ \A q \in Cells \ (FlameCells \cup {<<7, 6>>, <<8, 6>>}) : mid[q] = "tree"

\* The burning snag at (5,5) has been rejected on the board of a new game.
C11_FreshSnagRejected ==
    /\ event = Click(<<5, 5>>)
    /\ action = "burning_snag"
    /\ FreshBoard

\* C12: in the roster get_players returns for two, three or four slots, each
\* empty or preset, every preset player is in its slot with the corner it was
\* given, every empty slot holds a player at a corner no preset player has, and
\* no two players have the same corner.
C12_DistinctCorners ==
    pc = "done"
      => /\ Len(roster) = Len(slots)
         /\ \A i \in 1..Len(slots) :
              IF slots[i] # NoPlayer
              THEN roster[i] = slots[i]
              ELSE /\ roster[i].corner \in CORNERS
                   /\ \A j \in 1..Len(slots) : slots[j] # NoPlayer => roster[i].corner # slots[j].corner
         /\ \A i, j \in 1..Len(roster) : roster[i].corner = roster[j].corner => i = j

\* The action an action button selects, and the three actions that come in a
\* horizontal and a vertical form.
ActionOf(key) ==
    CASE key = "-Fire-" -> "add_wind_fire"
      [] key = "-DL-"   -> "dozer_line"
      [] key = "-SL-"   -> "scratch_line"
      [] key = "-DRF-"  -> "de_re_forest"
      [] key = "-FL-"   -> "flare_up"
      [] key = "-EXPL-" -> "explosion"
      [] key = "-EMBR-" -> "ember_phase_one"
      [] key = "-BSNG-" -> "burning_snag"
      [] OTHER          -> "none"

Oriented == {"dozer_line", "scratch_line", "flare_up"}

\* The engine as an event leaves it.
GameAfter ==
    [board |-> board', players |-> players', wind |-> wind', action |-> action',
     orientation |-> orientation', active |-> active', victor |-> victor']

\* C13: selecting dozer line, scratch line or flare-up while it is the selected
\* action turns a horizontal orientation into vertical and a vertical one into
\* horizontal, and selecting it once more gives the orientation there was
\* before the two selections; a target command and a wind roll leave the
\* orientation as it is.
C13_RepeatedSelectionFlips ==
    [][/\ (event'.kind = "select" /\ ActionOf(event'.arg) \in Oriented /\ ActionOf(event'.arg) = action)
          => /\ orientation' = (IF orientation = "h" THEN "v" ELSE "h")
             /\ action' = action
             /\ update(GameAfter, event').orientation = orientation
       /\ event'.kind \in {"click", "wind"} => orientation' = orientation]_vars

\* C13 witness: dozer line has been selected twice from the new game, the
\* second time as the selected action, and the orientation is vertical.
C13_Witness ==
    /\ event = Select("-DL-")
    /\ action = "dozer_line"
    /\ orientation = "v"
    /\ budget = MaxSteps - 2

\* C14 as claimed: in every reachable state no firebreak has a firebreak
\* orthogonally next to it.
C14_NoAdjacentFirebreaks ==
    \A q \in Cells : board[q] = "firebreak" => ~NextTo(board, q, "firebreak")

\* C14: a cell becomes a firebreak only by a target command, either as the
\* target of an explosion or, by a dozer line, scratch line or de/re-forest,
\* as a cell with no firebreak orthogonally next to it before the command; and
\* two orthogonally adjacent cells are both firebreaks after a command without
\* having both been so before only as the two cells of a dozer line or with
\* the target of an explosion among them.
C14_FirebreakAdjacency ==
    [][/\ board' # mid' => \A q \in Cells : board'[q] = "firebreak" => mid'[q] = "firebreak"
       /\ mid' # board
          => /\ event'.kind = "click"
             /\ \A q \in Cells :
                  (mid'[q] = "firebreak" /\ board[q] # "firebreak")
                    => IF action = "explosion"
                       THEN q = event'.point
                       ELSE /\ action \in {"dozer_line", "scratch_line", "de_re_forest"}
                            /\ ~NextTo(board, q, "firebreak")
             /\ \A q \in Cells : \A n \in Around4(q) \cap Cells :
                  (mid'[q] = "firebreak" /\ mid'[n] = "firebreak"
                     /\ ~(board[q] = "firebreak" /\ board[n] = "firebreak"))
                    => \/ /\ action = "dozer_line"
                          /\ {q, n} = {event'.point, SecondCell(event'.point, orientation, 1)}
                       \/ /\ action = "explosion"
                          /\ event'.point \in {q, n}]_vars

\* C14 witness: an explosion at the burning cell (8,6) has turned it into a
\* firebreak next to the firebreak (7,6) and set fire to the trees around it.
C14_Witness ==
    /\ event = Click(<<8, 6>>)
    /\ action = "explosion"
    /\ mid[<<8, 6>>] = "firebreak"
    /\ mid[<<7, 6>>] = "firebreak"
    /\ \A q \in {<<7, 5>>, <<8, 5>>, <<9, 5>>, <<9, 6>>} : mid[q] = "fire"

\* C15: selecting dozer line, scratch line or flare-up while another action is
\* the selected one leaves the orientation horizontal, whatever it was.
C15_DifferentSelectionResets ==
    [][(event'.kind = "select" /\ ActionOf(event'.arg) \in Oriented /\ ActionOf(event'.arg) # action)
         => orientation' = "h"]_vars

\* C16 as claimed: a de/re-forest changes at most its target cell, and a second
\* de/re-forest of the same cell right after it gives the board there was
\* before the first.
C16_TwiceRestores ==
    [][(event'.kind = "click" /\ action = "de_re_forest")
         => /\ \A q \in Cells \ {event'.point} : board'[q] = board[q]
            /\ update(GameAfter, event').board = board]_vars

\* C16: a de/re-forest changes at most its target cell. A second de/re-forest
\* of the same cell right after it gives the board there was before the first,
\* unless the target was a firebreak inside a tower or orthogonally next to a
\* firebreak: then the first makes it a tree and the second is rejected, so
\* that the board differs from the one before the two in the target, a tree.
C16_TwiceRestoresUnlessHemmed ==
    [][(event'.kind = "click" /\ action = "de_re_forest")
         => LET q == event'.point
                hemmed == /\ board[q] = "firebreak"
                          /\ InATower(q) \/ NextTo(board, q, "firebreak")
                twice == update(GameAfter, event').board
            IN  /\ mid' = board'
                /\ board' = [board EXCEPT ![q] = board'[q]]
                /\ twice = [board EXCEPT ![q] = IF hemmed THEN "tree" ELSE board[q]]]_vars

\* C16 witness: de/re-forest has been selected and applied to the firebreak an
\* explosion left at (14,2), inside the north-east tower; the cell is a tree,
\* on which a firebreak may not be placed.
C16_Witness ==
    /\ event = Click(<<14, 2>>)
    /\ action = "de_re_forest"
    /\ board[<<14, 2>>] = "tree"
    /\ budget = MaxEndgameSteps - 2

\* The directions valid for a set of corners: the wind components of each.
ValidFor(cs) == UNION {{c[1], c[2]} : c \in cs}

\* C17 as claimed: in every reachable state of a game still active the wind is
\* a wind component of the corner of some active player.
C17_WindValidForSurvivors == active => wind \in ValidFor(ActivePlayers)

\* C17: a wind roll eliminates no player and leaves the wind a wind component
\* of the corner of some active player; no other event changes the wind, an
\* event that eliminates players included.
C17_WindChangesOnlyByRoll ==
    [][/\ event'.kind = "wind" => (players' = players /\ wind' \in ValidFor(ActivePlayers))
       /\ event'.kind # "wind" => wind' = wind]_vars

\* C17 witness: a target command has eliminated the second of the two northern
\* players under a North wind; the game is active and the wind is still North.
C17_Witness ==
    /\ active
    /\ event.kind = "click"
    /\ ~players[<<"N", "W">>]
    /\ ~players[<<"N", "E">>]
    /\ mid[<<0, 0>>] = "fire" /\ mid[<<15, 0>>] = "fire"
    /\ wind = "N"
    /\ budget = MaxEndgameSteps - 2

\* C18: whenever roll_wind is in its loop, some wind component of the corner
\* of an active player differs from the wind the call started with (so the
\* set drawn from is not empty), and every call of roll_wind returns.
C18_RollTerminates ==
    /\ [](pc = "roll_wind" => \E w \in ValidFor(ActivePlayers) : w # old_wind)
    /\ (pc = "roll_wind") ~> (pc = "game_loop")

\* C18 witness: with both northern players eliminated, roll_wind has been
\* called twice and has returned twice.
C18_Witness ==
    /\ pc = "game_loop"
    /\ event.kind = "wind"
    /\ ~players[<<"N", "W">>]
    /\ ~players[<<"N", "E">>]
    /\ wind \in {"S", "W", "E"}
    /\ budget = MaxRolls - 2

\* C19: before and after every event the home cell of every active player is a
\* tree; an event eliminates at most one player, and it leaves at least one
\* player active.
C19_ActiveHomesAreTrees ==
    [][/\ \A c \in CORNERS : players[c] => board[HomeOf(c)] = "tree"
       /\ \A c \in CORNERS : players'[c] => board'[HomeOf(c)] = "tree"
       /\ Cardinality({c \in CORNERS : players[c] /\ ~players'[c]}) <= 1
       /\ \E c \in CORNERS : players'[c]]_vars

\* C19 witness: a target command has set fire to the north-west home and the
\* scan has eliminated that player alone; the north-east player is active, its
\* home a tree next to the burning cell (15,1).
C19_Witness ==
    /\ event.kind = "click"
    /\ mid[<<0, 0>>] = "fire"
    /\ ~players[<<"N", "W">>]
    /\ players[<<"N", "E">>] /\ players[<<"S", "W">>] /\ players[<<"S", "E">>]
    /\ board[<<15, 0>>] = "tree"
    /\ board[<<15, 1>>] = "fire"
    /\ budget = MaxEndgameSteps - 1

\* C20 as claimed: in every reachable state no cell of a tower is a firebreak.
C20_NoFirebreakInTowers == \A q \in Cells : InATower(q) => board[q] # "firebreak"

\* C20: a cell of a tower becomes a firebreak only as the burning target of an
\* explosion: no dozer line, scratch line or de/re-forest makes a tower cell a
\* firebreak, and neither does the victory scan.
C20_TowerFirebreakOnlyByExplosion ==
    [][\A c \in CORNERS : \A q \in TowerOf(c) :
         /\ (mid'[q] = "firebreak" /\ board[q] # "firebreak")
              => (action = "explosion" /\ event' = Click(q) /\ board[q] = "fire")
         /\ board'[q] = "firebreak" => mid'[q] = "firebreak"]_vars

\* C20 witness: an explosion at the burning cell (14,1) of the north-east
\* tower has turned it into a firebreak.
C20_Witness ==
    /\ event = Click(<<14, 1>>)
    /\ action = "explosion"
    /\ mid[<<14, 1>>] = "firebreak"
    /\ mid[<<14, 0>>] = "fire"

====
